---- MODULE Spec2Model ----
(***************************************************************************)
(* Model of the VPN configuration registry (roles/vpn_config_api/files/    *)
(* app/main.py) and of the gateway sync agent (roles/wg_dashboard/files/   *)
(* gateway-sync.py).                                                       *)
(*                                                                         *)
(* The registry is a set of HTTP handlers over a PostgreSQL database.      *)
(* Every handler acquires a pooled connection and issues its statements   *)
(* in autocommit mode (no handler opens a transaction), so each SQL        *)
(* statement is one atomic step.  The two creation handlers issue          *)
(* SELECT allocate_ip(...) and, later, INSERT INTO vpn_peers: they are two *)
(* steps each, and steps of other requests may run in between.  Every      *)
(* other handler is one step (register_gateway's upsert and the insert of  *)
(* its pool, which follow each other directly, are taken together).        *)
(* A handler that only reads is an operator giving its response; a         *)
(* handler that writes is an action, and <handler>_response gives the      *)
(* response it returns from the state it was called in.                    *)
(*                                                                         *)
(* The database schema (the tables, allocate_ip, generate_peer_config) is  *)
(* not among the sources; it is modelled from the specification.           *)
(*                                                                         *)
(* The agent registers at start-up and then repeats its cycle: the         *)
(* telemetry push, the pull, and the apply step; pc is its position.       *)
(* The requests of one telemetry push are taken together as one step.      *)
(***************************************************************************)
EXTENDS Integers, Sequences, FiniteSets, TLC

\* ------------------------------------------------------------ bounds

\* number of creation requests (create_peer / create_vpn_config) that get
\* as far as drawing a client token
MaxReq == 4
\* last address of the (scaled-down) pool block: 0 is the network address,
\* PoolLast the broadcast address
PoolLast == 5
\* number of those requests in the runs of the whole registry
MaxApiReq == 3
\* number of those requests in the runs that follow the gateway agent
MaxSyncReq == 2
\* number of those requests in the runs of the gateway-facing calls
MaxGatewayReq == 2
\* number of those requests in the runs in which time passes
MaxExpiryReq == 2
\* number of those requests in the runs of the administration of peers
MaxAdminReq == 2
\* the clock runs from 0 to MaxNow (in days)
MaxNow == 2
\* cap of the traffic counters total_rx_bytes and total_tx_bytes
MaxBytes == 1
\* number of creations, and cap of the traffic counters, in the runs of
\* telemetry pushes
MaxTelemetryReq == 1
MaxTelemetryBytes == 2
\* number of those requests in the runs of the agent's main loop
MaxAgentReq == 1
\* number of those requests in the fair runs of the agent
MaxHealReq == 2
\* cap of the transfer counters of a peer on the interface
MaxTraffic == 1

\* ------------------------------------------------------------ constants

Gateways == {"gw1", "gw2"}
\* an identity that is not configured in GATEWAY_TOKENS
UnknownGateway == "gwX"
GatewayIds == Gateways \cup {UnknownGateway}
Secrets == {"secret1", "secret2"}
\* GATEWAY_TOKENS as load_gateway_tokens reads it from the environment
GATEWAY_TOKENS == [g \in Gateways |-> IF g = "gw1" THEN "secret1" ELSE "secret2"]
\* os.getenv("ADMIN_API_KEY")
ADMIN_API_KEY == "adminkey"
AdminKeys == {ADMIN_API_KEY, "wrongkey"}
\* CONFIG["gateway_id"] and CONFIG["gateway_token"] of the modelled agent
AgentGateway == "gw1"
AgentToken == "secret1"

\* the pool register_gateway creates, '10.66.66.0/24' with gateway
\* '10.66.66.1'; addresses are written as offsets into the block
PoolNetwork == 0
PoolGateway == 1
\* allocate_ip's result when no address is free
Exhausted == -1
\* Python's None / SQL NULL in a column of timestamps
None == -1

Reqs == 1..MaxReq

VARIABLES
    vpn_servers,   \* table vpn_servers: set of rows
    ip_pools,      \* table ip_pools: set of rows
    vpn_peers,     \* table vpn_peers: set of rows
    issued,        \* issued[id]: the request whose INSERT made the row id
    nextReq,       \* number of the next creation request
    creating,      \* creation requests between allocate_ip and INSERT
    now,           \* the clock (datetime.utcnow, CURRENT_TIMESTAMP), in days
    wg,            \* public keys on the agent gateway's live interface
    saved,         \* public keys in the interface's configuration file, as
                   \* the last `wg-quick save` wrote it
    wg_stats,      \* wg_stats[key]: latest handshake and transfer counters
                   \* of the peer on that interface
    pc,            \* position of the agent in main
    pushed,        \* sync_peer_status: the reports of the current cycle
    local_peers,   \* sync_configs: the keys get_wg_peers returned
    remote_peers   \* sync_configs: the registry's answer to the pull

vars == <<vpn_servers, ip_pools, vpn_peers, issued, nextReq, creating, now,
          wg, saved, wg_stats, pc, pushed, local_peers, remote_peers>>
dbVars == <<vpn_servers, ip_pools, vpn_peers, issued, nextReq, creating, now>>
agentVars == <<wg, saved, wg_stats, pc, pushed, local_peers, remote_peers>>

\* ------------------------------------------------------------ values

Min(S) == CHOOSE x \in S : \A y \in S : x <= y

\* secrets.token_urlsafe(32) as drawn by request r: fresh for every request
client_token(r) == 100 + r
\* the keypair of request r (generate_wireguard_keypair, or the client's own)
private_key(r) == 200 + r
public_key(r) == 300 + r
\* hashlib.sha256(token.encode()).hexdigest(): one-way and collision-free,
\* a digest is no token
sha256(token) == 1000 + token

Tokens == {client_token(r) : r \in Reqs}
PrivateKeys == {private_key(r) : r \in Reqs}
\* a public key that is on the gateway's interface and was never registered
ForeignKey == public_key(0)
\* the public keys an interface can hold
Keys == {public_key(r) : r \in 0..MaxReq}
\* a peer of `wg show <interface> dump` without handshake and transfer
NoStats == [last_handshake |-> None, rx_bytes |-> 0, tx_bytes |-> 0]

\* ids the database has handed out so far (live or deleted)
IssuedIds == 1..Len(issued)
PeerIds == {p.id : p \in vpn_peers}
Peer(id) == CHOOSE p \in vpn_peers : p.id = id
Hostnames == {s.hostname : s \in vpn_servers}

\* the region a gateway registers with (CONFIG["region"] of its agent)
RegionOf(hostname) == IF hostname = "gw1" THEN "europe" ELSE "asia_pacific"

Reply(status, body) == [status |-> status, body |-> body]
NoBody == [none |-> TRUE]

\* ------------------------------------------------------------ database

\* "Calculate expiry": None unless expires_days is given and not 0
ExpiresAt(expires_days) ==
    IF expires_days = None \/ expires_days = 0 THEN None ELSE now + expires_days

\* usable addresses of a pool: the block without network, broadcast, gateway
PoolAddresses(pool) ==
    {a \in (pool.network + 1)..(PoolLast - 1) : a # pool.gateway}

\* addresses held by the peer rows of a server
HeldAddresses(server_id) ==
    {p.assigned_ip : p \in {q \in vpn_peers : q.server_id = server_id}}

\* an allocate_ip that hands out the address after the highest one held
allocate_ip_after_highest(server_id) ==
    LET pools == {p \in ip_pools : p.server_id = server_id}
        above == {a \in UNION {PoolAddresses(p) : p \in pools} :
                     \A h \in HeldAddresses(server_id) : a > h}
    IN IF above = {} THEN Exhausted ELSE Min(above)

\* SQL function allocate_ip(server_id): the lowest address of the server's
\* pools that no peer row of that server holds
allocate_ip(server_id) ==
    LET pools == {p \in ip_pools : p.server_id = server_id}
        free == UNION {PoolAddresses(p) : p \in pools} \ HeldAddresses(server_id)
    IN IF free = {} THEN Exhausted ELSE Min(free)

\* the row of request c with the token itself in place of its hash
NewPeerRow_plaintext(c) ==
    [id |-> Len(issued) + 1,
     server_id |-> c.server_id,
     public_key |-> public_key(c.req),
     assigned_ip |-> c.assigned_ip,
     enabled |-> TRUE,
     expires_at |-> c.expires_at,
     last_handshake |-> None,
     total_rx_bytes |-> 0,
     total_tx_bytes |-> 0,
     api_token_hash |-> client_token(c.req)]

\* the row INSERT INTO vpn_peers makes for request c (enabled defaults to
\* true, the telemetry columns to NULL and 0)
NewPeerRow(c) ==
    [id |-> Len(issued) + 1,
     server_id |-> c.server_id,
     public_key |-> public_key(c.req),
     assigned_ip |-> c.assigned_ip,
     enabled |-> TRUE,
     expires_at |-> c.expires_at,
     last_handshake |-> None,
     total_rx_bytes |-> 0,
     total_tx_bytes |-> 0,
     api_token_hash |-> sha256(client_token(c.req))]

\* SELECT ... ORDER BY created_at: rows are created in id order
RECURSIVE OrderByCreatedAt(_)
OrderByCreatedAt(rows) ==
    IF rows = {} THEN <<>>
    ELSE LET first == CHOOSE p \in rows : \A q \in rows : p.id <= q.id
         IN <<first>> \o OrderByCreatedAt(rows \ {first})

\* UPDATE vpn_peers SET enabled = value, without the WHERE clause
SetEnabled_every_row(peer_id, value) ==
    {[p EXCEPT !.enabled = value] : p \in vpn_peers}

\* UPDATE vpn_peers SET enabled = value WHERE id = peer_id
SetEnabled(peer_id, value) ==
    {IF p.id = peer_id THEN [p EXCEPT !.enabled = value] ELSE p : p \in vpn_peers}

\* SQL function generate_peer_config(peer_id): the stored fields of the peer
\* and of its server, rendered; NULL when the peer does not exist
generate_peer_config(peer_id) ==
    IF peer_id \notin PeerIds THEN [null |-> TRUE]
    ELSE [null |-> FALSE,
          address |-> Peer(peer_id).assigned_ip,
          server |-> Peer(peer_id).server_id]

\* ------------------------------------------------------------ authentication

\* verify_gateway_token accepting every secret for a configured identity
verify_gateway_token_any_secret(x_gateway_id, x_gateway_token) ==
    IF x_gateway_id \notin DOMAIN GATEWAY_TOKENS THEN 401 ELSE 200

\* verify_gateway_token: status of the authentication
verify_gateway_token(x_gateway_id, x_gateway_token) ==
    IF x_gateway_id \notin DOMAIN GATEWAY_TOKENS THEN 401
    ELSE IF GATEWAY_TOKENS[x_gateway_id] # x_gateway_token THEN 401
    ELSE 200

\* verify_gateway_token: the detail of the HTTPException it raises
verify_gateway_token_detail(x_gateway_id, x_gateway_token) ==
    IF x_gateway_id \notin DOMAIN GATEWAY_TOKENS THEN "Unknown gateway"
    ELSE IF GATEWAY_TOKENS[x_gateway_id] # x_gateway_token THEN "Invalid token"
    ELSE "none"

\* the 401 response of a handler that depends on verify_gateway_token
Unauthorized(x_gateway_id, x_gateway_token) ==
    Reply(401, [detail |-> verify_gateway_token_detail(x_gateway_id, x_gateway_token)])

\* verify_client_token without the check of the enabled flag
verify_client_token_ungated(token) ==
    IF {p \in vpn_peers : p.api_token_hash = sha256(token)} = {} THEN 401 ELSE 200

\* verify_client_token: status of the authentication by bearer token
verify_client_token(token) ==
    LET found == {p \in vpn_peers : p.api_token_hash = sha256(token)}
    IN IF found = {} THEN 401
       ELSE IF ~(CHOOSE p \in found : TRUE).enabled THEN 403
       ELSE 200

Init ==
    /\ vpn_servers = {}
    /\ ip_pools = {}
    /\ vpn_peers = {}
    /\ issued = <<>>
    /\ nextReq = 1
    /\ creating = {}
    /\ now = 0
    /\ wg \in SUBSET {ForeignKey}
    /\ saved = wg
    /\ wg_stats = [k \in Keys |-> NoStats]
    /\ pc = "start"
    /\ pushed = {}
    /\ local_peers = {}
    /\ remote_peers = Reply(0, NoBody)

\* ------------------------------------------------------------ gateway endpoints

\* the nine obfuscation parameters of a registration, each Optional[int]
AwgNames == {"awg_jc", "awg_jmin", "awg_jmax", "awg_s1", "awg_s2",
             "awg_h1", "awg_h2", "awg_h3", "awg_h4"}

\* a registration that names none of the nine: each defaults to None
NoAwg == [n \in AwgNames |-> None]

\* the nine values the agent sends when its protocol is amneziawg (the
\* defaults of AWG_JC .. AWG_H4)
AgentAwg ==
    [awg_jc |-> 4, awg_jmin |-> 40, awg_jmax |-> 70, awg_s1 |-> 0, awg_s2 |-> 0,
     awg_h1 |-> 1, awg_h2 |-> 2, awg_h3 |-> 3, awg_h4 |-> 4]

\* VPN_PROTOCOL of the agent on each gateway: the first runs AmneziaWG, the
\* others the default
AgentProtocol(hostname) == IF hostname = "gw1" THEN "amneziawg" ELSE "wireguard"

\* the protocol part of the body the agent's register_gateway sends: the
\* nine parameters are added only when the protocol is amneziawg
AgentBody(hostname) ==
    [protocol |-> AgentProtocol(hostname),
     awg |-> IF AgentProtocol(hostname) = "amneziawg" THEN AgentAwg ELSE NoAwg]

\* the row of vpn_servers that a registration with this body writes: the
\* INSERT writes every column, ON CONFLICT (hostname) DO UPDATE leaves id,
\* hostname, region and status of the existing row
ServerRow(hostname, public_ip, body) ==
    IF hostname \in Hostnames
    THEN [(CHOOSE r \in vpn_servers : r.hostname = hostname)
             EXCEPT !.public_ip = public_ip, !.updated_at = now,
                    !.protocol = body.protocol, !.awg = body.awg]
    ELSE [id |-> hostname, hostname |-> hostname,
          region |-> RegionOf(hostname), status |-> "active",
          public_ip |-> public_ip, updated_at |-> now,
          protocol |-> body.protocol, awg |-> body.awg]

\* a registration that replaces the gateway's row (DELETE, cascading to its
\* pools and peers, then INSERT)
register_gateway_replacing(x_gateway_id, x_gateway_token, hostname, public_ip, body) ==
    /\ IF verify_gateway_token(x_gateway_id, x_gateway_token) # 200
       THEN UNCHANGED <<vpn_servers, ip_pools, vpn_peers>>
       ELSE /\ vpn_servers' =
                 {r \in vpn_servers : r.hostname # hostname}
                    \cup {ServerRow(hostname, public_ip, body)}
            /\ ip_pools' = ip_pools \cup
                 {[server_id |-> ServerRow(hostname, public_ip, body).id,
                   network |-> PoolNetwork, gateway |-> PoolGateway]}
            /\ vpn_peers' = {p \in vpn_peers : p.server_id # hostname}
    /\ UNCHANGED <<issued, nextReq, creating, now>>
    /\ UNCHANGED agentVars

\* POST /api/v1/gateway/register: what it does to the tables
register_gateway_statements(x_gateway_id, x_gateway_token, hostname, public_ip, body) ==
    IF verify_gateway_token(x_gateway_id, x_gateway_token) # 200
    THEN UNCHANGED <<vpn_servers, ip_pools>>
    ELSE \* INSERT ... ON CONFLICT (hostname) DO UPDATE
         /\ vpn_servers' =
              {r \in vpn_servers : r.hostname # hostname}
                 \cup {ServerRow(hostname, public_ip, body)}
         \* INSERT INTO ip_pools ... ON CONFLICT DO NOTHING
         /\ ip_pools' = ip_pools \cup
              {[server_id |-> ServerRow(hostname, public_ip, body).id,
                network |-> PoolNetwork, gateway |-> PoolGateway]}

\* POST /api/v1/gateway/register
register_gateway(x_gateway_id, x_gateway_token, hostname, public_ip, body) ==
    /\ register_gateway_statements(x_gateway_id, x_gateway_token, hostname, public_ip, body)
    /\ UNCHANGED <<vpn_peers, issued, nextReq, creating, now>>
    /\ UNCHANGED agentVars

register_gateway_response(x_gateway_id, x_gateway_token, hostname, public_ip, body) ==
    IF verify_gateway_token(x_gateway_id, x_gateway_token) # 200
    THEN Unauthorized(x_gateway_id, x_gateway_token)
    ELSE Reply(200, [server_id |-> ServerRow(hostname, public_ip, body).id,
                     hostname |-> hostname])

\* the pull with WHERE server_id = $1 AND enabled
get_gateway_peers_enabled_only(x_gateway_id, x_gateway_token) ==
    IF verify_gateway_token(x_gateway_id, x_gateway_token) # 200
    THEN Unauthorized(x_gateway_id, x_gateway_token)
    ELSE IF x_gateway_id \notin Hostnames
    THEN Reply(404, NoBody)
    ELSE Reply(200,
               [peers |-> OrderByCreatedAt(
                   {[id |-> p.id, public_key |-> p.public_key,
                     assigned_ip |-> p.assigned_ip, enabled |-> p.enabled] :
                    p \in {q \in vpn_peers : q.server_id = x_gateway_id
                                             /\ q.enabled}})])

\* the pull without WHERE server_id = $1
get_gateway_peers_all_gateways(x_gateway_id, x_gateway_token) ==
    IF verify_gateway_token(x_gateway_id, x_gateway_token) # 200
    THEN Unauthorized(x_gateway_id, x_gateway_token)
    ELSE IF x_gateway_id \notin Hostnames
    THEN Reply(404, NoBody)
    ELSE Reply(200,
               [peers |-> OrderByCreatedAt(
                   {[id |-> p.id, public_key |-> p.public_key,
                     assigned_ip |-> p.assigned_ip, enabled |-> p.enabled] :
                    p \in vpn_peers})])

\* GET /api/v1/gateway/peers
get_gateway_peers(x_gateway_id, x_gateway_token) ==
    IF verify_gateway_token(x_gateway_id, x_gateway_token) # 200
    THEN Unauthorized(x_gateway_id, x_gateway_token)
    ELSE IF x_gateway_id \notin Hostnames
    THEN Reply(404, NoBody)
    ELSE Reply(200,
               [peers |-> OrderByCreatedAt(
                   {[id |-> p.id, public_key |-> p.public_key,
                     assigned_ip |-> p.assigned_ip, enabled |-> p.enabled] :
                    p \in {q \in vpn_peers : q.server_id = x_gateway_id}})])

\* a create_peer that goes on to its INSERT with whatever allocate_ip gave
create_peer_allocate_unchecked(x_gateway_id, x_gateway_token, expires_days) ==
    /\ nextReq <= MaxReq
    /\ IF \/ verify_gateway_token(x_gateway_id, x_gateway_token) # 200
          \/ x_gateway_id \notin Hostnames
       THEN UNCHANGED <<nextReq, creating>>
       ELSE /\ creating' = creating \cup
                 {[req |-> nextReq, handler |-> "create_peer",
                   server_id |-> x_gateway_id,
                   assigned_ip |-> allocate_ip(x_gateway_id),
                   expires_at |-> ExpiresAt(expires_days)]}
            /\ nextReq' = nextReq + 1
    /\ UNCHANGED <<vpn_servers, ip_pools, vpn_peers, issued, now>>
    /\ UNCHANGED agentVars

\* POST /api/v1/gateway/peers, up to and including SELECT allocate_ip and
\* the drawing of the client token
create_peer_allocate(x_gateway_id, x_gateway_token, expires_days) ==
    /\ nextReq <= MaxReq
    /\ IF \/ verify_gateway_token(x_gateway_id, x_gateway_token) # 200
          \/ x_gateway_id \notin Hostnames
          \/ allocate_ip(x_gateway_id) = Exhausted
       THEN UNCHANGED <<nextReq, creating>>
       ELSE /\ creating' = creating \cup
                 {[req |-> nextReq, handler |-> "create_peer",
                   server_id |-> x_gateway_id,
                   assigned_ip |-> allocate_ip(x_gateway_id),
                   expires_at |-> ExpiresAt(expires_days)]}
            /\ nextReq' = nextReq + 1
    /\ UNCHANGED <<vpn_servers, ip_pools, vpn_peers, issued, now>>
    /\ UNCHANGED agentVars

\* the response of a create_peer call that ends before its INSERT
create_peer_allocate_response(x_gateway_id, x_gateway_token, expires_days) ==
    IF verify_gateway_token(x_gateway_id, x_gateway_token) # 200
    THEN Unauthorized(x_gateway_id, x_gateway_token)
    ELSE IF x_gateway_id \notin Hostnames THEN Reply(404, NoBody)
    ELSE IF allocate_ip(x_gateway_id) = Exhausted
    THEN Reply(500, [detail |-> "Internal Server Error"])
    ELSE Reply(0, NoBody)

\* POST /api/v1/gateway/peers, the INSERT INTO vpn_peers; inserted is FALSE
\* when the statement raises
create_peer_insert(c, inserted) ==
    /\ c \in creating
    /\ c.handler = "create_peer"
    /\ creating' = creating \ {c}
    /\ IF inserted
       THEN /\ vpn_peers' = vpn_peers \cup {NewPeerRow(c)}
            /\ issued' = Append(issued, c.req)
       ELSE UNCHANGED <<vpn_peers, issued>>
    /\ UNCHANGED <<vpn_servers, ip_pools, nextReq, now>>
    /\ UNCHANGED agentVars

create_peer_response(c, inserted) ==
    IF inserted
    THEN Reply(200, [peer_id |-> Len(issued) + 1,
                     assigned_ip |-> c.assigned_ip,
                     client_token |-> client_token(c.req)])
    ELSE Reply(500, [detail |-> "Internal Server Error"])

\* an UPDATE that stores the pushed values in place of the sums
UpdateTelemetry_overwriting(rows, peer_id, last_handshake, rx_bytes, tx_bytes) ==
    {IF p.id = peer_id
     THEN [p EXCEPT
             !.last_handshake = last_handshake,
             !.total_rx_bytes = rx_bytes,
             !.total_tx_bytes = tx_bytes]
     ELSE p : p \in rows}

\* an UPDATE that also moves the expiry of the peer to the handshake time
UpdateTelemetry_extending(rows, peer_id, last_handshake, rx_bytes, tx_bytes) ==
    {IF p.id = peer_id
     THEN [p EXCEPT
             !.last_handshake = IF last_handshake = None THEN @ ELSE last_handshake,
             !.expires_at = IF last_handshake = None THEN @ ELSE last_handshake + 1,
             !.total_rx_bytes = @ + rx_bytes,
             !.total_tx_bytes = @ + tx_bytes]
     ELSE p : p \in rows}

\* UPDATE vpn_peers SET last_handshake = COALESCE($1, last_handshake),
\* total_rx_bytes = total_rx_bytes + $2, total_tx_bytes = total_tx_bytes + $3
\* WHERE id = $4, on these rows
UpdateTelemetry(rows, peer_id, last_handshake, rx_bytes, tx_bytes) ==
    {IF p.id = peer_id
     THEN [p EXCEPT
             !.last_handshake = IF last_handshake = None THEN @ ELSE last_handshake,
             !.total_rx_bytes = @ + rx_bytes,
             !.total_tx_bytes = @ + tx_bytes]
     ELSE p : p \in rows}

\* PUT /api/v1/gateway/peers/{peer_id}/sync
sync_peer_status(x_gateway_id, x_gateway_token, peer_id, last_handshake, rx_bytes, tx_bytes) ==
    /\ IF verify_gateway_token(x_gateway_id, x_gateway_token) # 200
       THEN UNCHANGED vpn_peers
       ELSE vpn_peers' =
              UpdateTelemetry(vpn_peers, peer_id, last_handshake, rx_bytes, tx_bytes)
    /\ UNCHANGED <<vpn_servers, ip_pools, issued, nextReq, creating, now>>
    /\ UNCHANGED agentVars

sync_peer_status_response(x_gateway_id, x_gateway_token, peer_id) ==
    IF verify_gateway_token(x_gateway_id, x_gateway_token) # 200
    THEN Unauthorized(x_gateway_id, x_gateway_token)
    ELSE Reply(200, [status |-> "synced"])

\* ------------------------------------------------------------ client endpoints

\* GET /api/v1/client/config: verify_client_token, then generate_peer_config
get_client_config(token) ==
    IF verify_client_token(token) # 200
    THEN Reply(verify_client_token(token), NoBody)
    ELSE LET peer == CHOOSE p \in vpn_peers : p.api_token_hash = sha256(token)
         IN IF generate_peer_config(peer.id).null
            THEN Reply(404, NoBody)
            ELSE Reply(200, [peer_id |-> peer.id,
                             address |-> generate_peer_config(peer.id).address])

\* ------------------------------------------------------------ admin endpoints

\* create_vpn_config's choice of a server: the named one, or a least loaded
\* active one (of the region, when one is given)
SelectServers(server_id, region) ==
    LET active == {s \in vpn_servers : s.status = "active"}
        Load(s) == Cardinality({p \in vpn_peers : p.server_id = s.id})
        LeastLoaded(S) == {s \in S : \A t \in S : Load(s) <= Load(t)}
    IN IF server_id # "none" THEN {s \in active : s.id = server_id}
       ELSE IF region # "none" THEN LeastLoaded({s \in active : s.region = region})
       ELSE LeastLoaded(active)

\* a create_vpn_config that goes on to its INSERT with whatever allocate_ip
\* gave
create_vpn_config_allocate_unchecked(x_admin_key, server_id, region, expires_days) ==
    /\ nextReq <= MaxReq
    /\ IF \/ x_admin_key # ADMIN_API_KEY
          \/ SelectServers(server_id, region) = {}
       THEN UNCHANGED <<nextReq, creating>>
       ELSE \E server \in SelectServers(server_id, region) :
                 /\ creating' = creating \cup
                      {[req |-> nextReq, handler |-> "create_vpn_config",
                        server_id |-> server.id,
                        assigned_ip |-> allocate_ip(server.id),
                        expires_at |-> ExpiresAt(expires_days),
                        protocol |-> server.protocol,
                        awg |-> server.awg]}
                 /\ nextReq' = nextReq + 1
    /\ UNCHANGED <<vpn_servers, ip_pools, vpn_peers, issued, now>>
    /\ UNCHANGED agentVars

\* POST /api/v1/configs/create, up to and including SELECT allocate_ip and
\* the drawing of the client token
create_vpn_config_allocate(x_admin_key, server_id, region, expires_days) ==
    /\ nextReq <= MaxReq
    /\ IF \/ x_admin_key # ADMIN_API_KEY
          \/ SelectServers(server_id, region) = {}
       THEN UNCHANGED <<nextReq, creating>>
       ELSE \E server \in SelectServers(server_id, region) :
            IF allocate_ip(server.id) = Exhausted
            THEN UNCHANGED <<nextReq, creating>>
            ELSE /\ creating' = creating \cup
                      {[req |-> nextReq, handler |-> "create_vpn_config",
                        server_id |-> server.id,
                        assigned_ip |-> allocate_ip(server.id),
                        expires_at |-> ExpiresAt(expires_days),
                        protocol |-> server.protocol,
                        awg |-> server.awg]}
                 /\ nextReq' = nextReq + 1
    /\ UNCHANGED <<vpn_servers, ip_pools, vpn_peers, issued, now>>
    /\ UNCHANGED agentVars

\* the response of a create_vpn_config call that ends before its INSERT,
\* when it chose server
create_vpn_config_allocate_response(x_admin_key, server_id, region, expires_days, server) ==
    IF x_admin_key # ADMIN_API_KEY THEN Reply(401, NoBody)
    ELSE IF SelectServers(server_id, region) = {} THEN Reply(404, NoBody)
    ELSE IF allocate_ip(server.id) = Exhausted
    THEN Reply(500, [detail |-> "Internal Server Error"])
    ELSE Reply(0, NoBody)

\* POST /api/v1/configs/create, the INSERT INTO vpn_peers; inserted is FALSE
\* when the statement raises
create_vpn_config_insert(c, inserted) ==
    /\ c \in creating
    /\ c.handler = "create_vpn_config"
    /\ creating' = creating \ {c}
    /\ IF inserted
       THEN /\ vpn_peers' = vpn_peers \cup {NewPeerRow(c)}
            /\ issued' = Append(issued, c.req)
       ELSE UNCHANGED <<vpn_peers, issued>>
    /\ UNCHANGED <<vpn_servers, ip_pools, nextReq, now>>
    /\ UNCHANGED agentVars

\* the value a format string renders for a parameter: the number, or the
\* text None for a parameter that is None
Rendered(value) == IF value = None THEN "None" ELSE ToString(value)

\* the "# AmneziaWG Obfuscation" lines of build_wireguard_config: all nine
\* when awg_jc is not None, whatever the other eight are, and none otherwise
ObfuscationLines(awg) ==
    IF awg.awg_jc # None
    THEN << <<"Jc", Rendered(awg.awg_jc)>>, <<"Jmin", Rendered(awg.awg_jmin)>>,
            <<"Jmax", Rendered(awg.awg_jmax)>>, <<"S1", Rendered(awg.awg_s1)>>,
            <<"S2", Rendered(awg.awg_s2)>>, <<"H1", Rendered(awg.awg_h1)>>,
            <<"H2", Rendered(awg.awg_h2)>>, <<"H3", Rendered(awg.awg_h3)>>,
            <<"H4", Rendered(awg.awg_h4)>> >>
    ELSE <<>>

\* what build_wireguard_config renders for this creation
build_wireguard_config(c) ==
    [PrivateKey |-> private_key(c.req), Address |-> c.assigned_ip,
     Obfuscation |-> ObfuscationLines(c.awg)]

\* the base64 PNG that encodes this configuration text
base64_png(config) == 10000 + 10 * config.PrivateKey + config.Address

\* a generate_qr_code without the try/except: the failure of the encoding
\* is raised to the handler
generate_qr_code_raising(config, encoded) ==
    IF encoded THEN [raised |-> FALSE, value |-> base64_png(config)]
    ELSE [raised |-> TRUE, value |-> None]

\* generate_qr_code; encoded is FALSE when qrcode or the PNG writer raises
generate_qr_code(config, encoded) ==
    IF encoded THEN [raised |-> FALSE, value |-> base64_png(config)]
    ELSE [raised |-> FALSE, value |-> None]

\* ConfigCreateResponse, after the INSERT
create_vpn_config_response(c, inserted, encoded) ==
    IF ~inserted \/ generate_qr_code(build_wireguard_config(c), encoded).raised
    THEN Reply(500, [detail |-> "Internal Server Error"])
    ELSE Reply(200, [peer_id |-> Len(issued) + 1,
                     config |-> build_wireguard_config(c),
                     private_key |-> private_key(c.req),
                     public_key |-> public_key(c.req),
                     assigned_ip |-> c.assigned_ip,
                     qr_code |-> generate_qr_code(build_wireguard_config(c),
                                                  encoded).value,
                     client_token |-> client_token(c.req)])

\* GET /api/v1/configs/{peer_id}
get_config_by_id(peer_id, x_admin_key) ==
    IF x_admin_key # ADMIN_API_KEY THEN Reply(401, NoBody)
    ELSE IF peer_id \notin PeerIds THEN Reply(404, NoBody)
    ELSE Reply(200, [peer_id |-> peer_id,
                     public_key |-> Peer(peer_id).public_key,
                     assigned_ip |-> Peer(peer_id).assigned_ip,
                     server |-> Peer(peer_id).server_id,
                     enabled |-> Peer(peer_id).enabled])

\* a delete that only switches the peer off
delete_config_soft(peer_id, x_admin_key) ==
    /\ IF x_admin_key # ADMIN_API_KEY
       THEN UNCHANGED vpn_peers
       ELSE vpn_peers' = SetEnabled(peer_id, FALSE)
    /\ UNCHANGED <<vpn_servers, ip_pools, issued, nextReq, creating, now>>
    /\ UNCHANGED agentVars

\* a delete that takes any key but the empty one
delete_config_any_key(peer_id, x_admin_key) ==
    /\ IF x_admin_key = ""
       THEN UNCHANGED vpn_peers
       ELSE vpn_peers' = {p \in vpn_peers : p.id # peer_id}
    /\ UNCHANGED <<vpn_servers, ip_pools, issued, nextReq, creating, now>>
    /\ UNCHANGED agentVars

\* DELETE /api/v1/configs/{peer_id}
delete_config(peer_id, x_admin_key) ==
    /\ IF x_admin_key # ADMIN_API_KEY
       THEN UNCHANGED vpn_peers
       ELSE vpn_peers' = {p \in vpn_peers : p.id # peer_id}
    /\ UNCHANGED <<vpn_servers, ip_pools, issued, nextReq, creating, now>>
    /\ UNCHANGED agentVars

delete_config_response(peer_id, x_admin_key) ==
    IF x_admin_key # ADMIN_API_KEY THEN Reply(401, NoBody)
    ELSE IF peer_id \notin PeerIds THEN Reply(404, NoBody)
    ELSE Reply(200, [status |-> "deleted", peer_id |-> peer_id])

\* PATCH /api/v1/configs/{peer_id}/disable
disable_config(peer_id, x_admin_key) ==
    /\ IF x_admin_key # ADMIN_API_KEY
       THEN UNCHANGED vpn_peers
       ELSE vpn_peers' = SetEnabled(peer_id, FALSE)
    /\ UNCHANGED <<vpn_servers, ip_pools, issued, nextReq, creating, now>>
    /\ UNCHANGED agentVars

disable_config_response(peer_id, x_admin_key) ==
    IF x_admin_key # ADMIN_API_KEY THEN Reply(401, NoBody)
    ELSE Reply(200, [status |-> "disabled", peer_id |-> peer_id])

\* PATCH /api/v1/configs/{peer_id}/enable
enable_config(peer_id, x_admin_key) ==
    /\ IF x_admin_key # ADMIN_API_KEY
       THEN UNCHANGED vpn_peers
       ELSE vpn_peers' = SetEnabled(peer_id, TRUE)
    /\ UNCHANGED <<vpn_servers, ip_pools, issued, nextReq, creating, now>>
    /\ UNCHANGED agentVars

enable_config_response(peer_id, x_admin_key) ==
    IF x_admin_key # ADMIN_API_KEY THEN Reply(401, NoBody)
    ELSE Reply(200, [status |-> "enabled", peer_id |-> peer_id])

\* the view server_summary, whose definition is not among the sources: it is
\* taken for the server rows
server_summary == vpn_servers

\* SELECT ... ORDER BY region: asia_pacific sorts before europe
RECURSIVE OrderByRegion(_)
OrderByRegion(rows) ==
    IF rows = {} THEN <<>>
    ELSE LET first == CHOOSE r \in rows :
                         \A q \in rows : q.region = "asia_pacific" => r.region = q.region
         IN <<first>> \o OrderByRegion(rows \ {first})

\* GET /api/v1/admin/servers
list_all_servers(x_admin_key) ==
    IF x_admin_key # ADMIN_API_KEY THEN Reply(401, NoBody)
    ELSE Reply(200, [servers |-> OrderByRegion(server_summary)])

\* SELECT SUM(column): NULL for no rows
RECURSIVE SumOf(_, _)
SumOf(rows, rx) ==
    IF rows = {} THEN 0
    ELSE LET p == CHOOSE q \in rows : TRUE
         IN (IF rx THEN p.total_rx_bytes ELSE p.total_tx_bytes) + SumOf(rows \ {p}, rx)

\* GET /api/v1/admin/stats; the clock of the model counts days, so a peer is
\* connected now when its last handshake is of today
get_global_stats(x_admin_key) ==
    IF x_admin_key # ADMIN_API_KEY THEN Reply(401, NoBody)
    ELSE Reply(200,
               [active_servers |-> Cardinality({r \in vpn_servers : r.status = "active"}),
                active_peers |-> Cardinality({p \in vpn_peers : p.enabled}),
                total_peers |-> Cardinality(vpn_peers),
                total_rx_bytes |-> IF vpn_peers = {} THEN None ELSE SumOf(vpn_peers, TRUE),
                total_tx_bytes |-> IF vpn_peers = {} THEN None ELSE SumOf(vpn_peers, FALSE),
                connected_now |-> Cardinality({p \in vpn_peers : p.last_handshake = now})])

\* ------------------------------------------------------------ time

\* a day passes
Tick ==
    /\ now < MaxNow
    /\ now' = now + 1
    /\ UNCHANGED <<vpn_servers, ip_pools, vpn_peers, issued, nextReq, creating>>
    /\ UNCHANGED agentVars

\* ------------------------------------------------------------ gateway agent

\* fetch_peer_configs: the "peers" list of a 200 answer, [] otherwise
fetch_peer_configs(answer) ==
    IF answer.status = 200 THEN answer.body.peers ELSE <<>>

\* public_ip in the body of a registration; get_public_ip of each agent
PublicIps == {"ip1", "ip2"}
PublicIpOf(hostname) == IF hostname = "gw1" THEN "ip1" ELSE "ip2"

\* main, lines 312-318: the registration at start-up, tried twice; answered
\* is FALSE when the request fails, times out or is answered with an error
agent_register_gateway(answered) ==
    /\ pc \in {"start", "retry"}
    /\ IF answered
       THEN /\ register_gateway_statements(AgentGateway, AgentToken, AgentGateway,
                                           PublicIpOf(AgentGateway), AgentBody(AgentGateway))
            /\ pc' = "idle"
       ELSE /\ UNCHANGED <<vpn_servers, ip_pools>>
            \* sys.exit(1) after the second failure
            /\ pc' = IF pc = "start" THEN "retry" ELSE "exited"
    /\ UNCHANGED <<vpn_peers, issued, nextReq, creating, now>>
    /\ UNCHANGED <<wg, saved, wg_stats, pushed, local_peers, remote_peers>>

\* the peers of get_wg_peers that sync_peer_status reports: those with a
\* handshake (none when `wg show` fails)
ReportedKeys(shown) ==
    IF shown THEN {k \in wg : wg_stats[k].last_handshake # None} ELSE {}

\* the PUT requests of sync_peer_status: the peer is named by its public
\* key, the counters are those of the dump; the requests for the keys in
\* lost raise a RequestException
sync_peer_status_requests(shown, lost) ==
    {[peer_id |-> k,
      last_handshake |-> wg_stats[k].last_handshake,
      rx_bytes |-> wg_stats[k].rx_bytes,
      tx_bytes |-> wg_stats[k].tx_bytes,
      delivered |-> k \notin lost] : k \in ReportedKeys(shown)}

\* the rows after the registry has handled these requests
RECURSIVE HandleReports(_, _)
HandleReports(rows, reports) ==
    IF reports = {} THEN rows
    ELSE LET r == CHOOSE x \in reports : TRUE
         IN HandleReports(
               IF verify_gateway_token(AgentGateway, AgentToken) # 200 THEN rows
               ELSE UpdateTelemetry(rows, r.peer_id, r.last_handshake,
                                    r.rx_bytes, r.tx_bytes),
               reports \ {r})

\* a sync_peer_status that does not catch the failure of a request: the
\* reports after the first lost one are not made and the cycle ends
agent_sync_peer_status_aborting(shown, lost) ==
    /\ pc = "idle"
    /\ LET made == {r \in sync_peer_status_requests(shown, lost) :
                     \A x \in lost \cap ReportedKeys(shown) : r.peer_id <= x}
       IN /\ pushed' = made
          /\ vpn_peers' = HandleReports(vpn_peers, {r \in made : r.delivered})
    /\ pc' = IF lost \cap ReportedKeys(shown) = {} THEN "reported" ELSE "idle"
    /\ UNCHANGED <<vpn_servers, ip_pools, issued, nextReq, creating, now>>
    /\ UNCHANGED <<wg, saved, wg_stats, local_peers, remote_peers>>

\* sync_peer_status of the agent (main, line 324)
agent_sync_peer_status(shown, lost) ==
    /\ pc = "idle"
    /\ pushed' = sync_peer_status_requests(shown, lost)
    /\ vpn_peers' = HandleReports(vpn_peers,
                                  {r \in sync_peer_status_requests(shown, lost) : r.delivered})
    /\ pc' = "reported"
    /\ UNCHANGED <<vpn_servers, ip_pools, issued, nextReq, creating, now>>
    /\ UNCHANGED <<wg, saved, wg_stats, local_peers, remote_peers>>

\* sync_configs, lines 281-284: get_wg_peers (an empty list when `wg show`
\* fails), then the pull (no answer when the request fails or times out)
sync_configs_fetch(shown, answered) ==
    /\ pc = "reported"
    /\ local_peers' = IF shown THEN wg ELSE {}
    /\ remote_peers' = IF answered
                       THEN get_gateway_peers(AgentGateway, AgentToken)
                       ELSE Reply(0, NoBody)
    /\ pc' = "fetched"
    /\ UNCHANGED <<wg, saved, wg_stats, pushed>>
    /\ UNCHANGED dbVars

\* peer.get("preshared_key")
preshared_key(peer) ==
    IF "preshared_key" \in DOMAIN peer THEN peer.preshared_key ELSE None

\* what subprocess.run(["wg", "set", ...]) does: exit status 0, another exit
\* status, or an exception (the command cannot be started)
WgSetOutcomes == {"zero", "nonzero", "raises"}

\* a pre-shared key
PresharedKey == 400

\* apply_peer_config: what it returns, whether the peer is on the interface
\* after it, whether it ran `wg-quick save`, and whether the temporary file
\* with the pre-shared key exists when it returns
apply_peer_config(peer, outcome) ==
    IF outcome = "raises"
    THEN \* except Exception: return False
         [returned |-> FALSE, added |-> FALSE, saved |-> FALSE,
          psk_file_left |-> preshared_key(peer) # None]
    ELSE IF preshared_key(peer) = None
    THEN \* psk_file was never assigned: `if psk_file:` raises
         \* UnboundLocalError, which except Exception catches
         [returned |-> FALSE, added |-> outcome = "zero", saved |-> FALSE,
          psk_file_left |-> FALSE]
    ELSE \* os.unlink(psk_file), then the test of result.returncode
         [returned |-> outcome = "zero", added |-> outcome = "zero",
          saved |-> outcome = "zero", psk_file_left |-> FALSE]

\* the body of sync_configs's loop with every removal left out
sync_configs_step_never_removes(peer, local, interface, failed) ==
    IF peer.public_key \notin local /\ peer.enabled /\ peer.public_key \notin failed
    THEN interface \cup {peer.public_key}
    ELSE interface

\* the body of the loop of sync_configs for one pulled peer: the interface
\* after it; the `wg set` commands for the keys in failed exit non-zero
sync_configs_step(peer, local, interface, failed) ==
    IF peer.public_key \notin local
    THEN \* apply_peer_config: wg set <interface> peer <key> allowed-ips ...
         IF /\ peer.enabled
            /\ apply_peer_config(peer, IF peer.public_key \in failed
                                       THEN "nonzero" ELSE "zero").added
         THEN interface \cup {peer.public_key} ELSE interface
    ELSE \* wg set <interface> peer <key> remove
         IF ~peer.enabled /\ peer.public_key \notin failed
         THEN interface \ {peer.public_key} ELSE interface

\* the loop of sync_configs over the pulled peers, in the order pulled
RECURSIVE sync_configs_loop(_, _, _, _)
sync_configs_loop(peers, local, interface, failed) ==
    IF peers = <<>> THEN interface
    ELSE sync_configs_loop(Tail(peers), local,
                           sync_configs_step(Head(peers), local, interface, failed),
                           failed)

\* the configuration file after the loop of sync_configs: `wg-quick save`
\* writes the interface as it is when apply_peer_config runs it
RECURSIVE sync_configs_saves(_, _, _, _, _)
sync_configs_saves(peers, local, interface, file, failed) ==
    IF peers = <<>> THEN file
    ELSE LET peer == Head(peers)
             after == sync_configs_step(peer, local, interface, failed)
             applied == peer.public_key \notin local /\ peer.enabled
             outcome == IF peer.public_key \in failed THEN "nonzero" ELSE "zero"
         IN sync_configs_saves(
               Tail(peers), local, after,
               IF applied /\ apply_peer_config(peer, outcome).saved
               THEN after ELSE file,
               failed)

\* the `wg set` commands the loop of sync_configs issues
sync_configs_commands(peers, local) ==
    {[op |-> IF peers[i].enabled THEN "set" ELSE "remove",
      public_key |-> peers[i].public_key] :
        i \in {j \in 1..Len(peers) :
                  (peers[j].public_key \notin local) = peers[j].enabled}}

\* a sync_configs that takes a pull without answer for an empty desired set
sync_configs_apply_flushing(failed) ==
    /\ pc = "fetched"
    /\ wg' = IF remote_peers.status = 200
             THEN sync_configs_loop(fetch_peer_configs(remote_peers), local_peers,
                                    wg, failed)
             ELSE {}
    /\ saved' = saved
    /\ wg_stats' = [k \in Keys |-> IF k \in wg /\ k \in wg' THEN wg_stats[k] ELSE NoStats]
    /\ pc' = "idle"
    /\ local_peers' = {}
    /\ remote_peers' = Reply(0, NoBody)
    /\ UNCHANGED pushed
    /\ UNCHANGED dbVars

\* a sync_configs after which the agent ends when an add has failed
sync_configs_apply_giving_up(failed) ==
    /\ pc = "fetched"
    /\ wg' = sync_configs_loop(fetch_peer_configs(remote_peers), local_peers,
                               wg, failed)
    /\ saved' = sync_configs_saves(fetch_peer_configs(remote_peers), local_peers,
                                   wg, saved, failed)
    /\ wg_stats' = [k \in Keys |-> IF k \in wg /\ k \in wg' THEN wg_stats[k] ELSE NoStats]
    /\ pc' = IF failed = {} THEN "idle" ELSE "exited"
    /\ local_peers' = {}
    /\ remote_peers' = Reply(0, NoBody)
    /\ UNCHANGED pushed
    /\ UNCHANGED dbVars

\* sync_configs, lines 286-301, and the sleep of main; a peer that leaves
\* the interface loses its counters
sync_configs_apply(failed) ==
    /\ pc = "fetched"
    /\ wg' = sync_configs_loop(fetch_peer_configs(remote_peers), local_peers,
                               wg, failed)
    /\ saved' = sync_configs_saves(fetch_peer_configs(remote_peers), local_peers,
                                   wg, saved, failed)
    /\ wg_stats' = [k \in Keys |-> IF k \in wg /\ k \in wg' THEN wg_stats[k] ELSE NoStats]
    /\ pc' = "idle"
    /\ local_peers' = {}
    /\ remote_peers' = Reply(0, NoBody)
    /\ UNCHANGED pushed
    /\ UNCHANGED dbVars

\* the data plane: the peer with this key shakes hands and transfers data
Traffic(k) ==
    /\ k \in wg
    /\ wg_stats[k].rx_bytes < MaxTraffic
    /\ wg_stats' = [wg_stats EXCEPT ![k] =
                       [last_handshake |-> now + 1,
                        rx_bytes |-> @.rx_bytes + 1,
                        tx_bytes |-> @.tx_bytes + 1]]
    /\ UNCHANGED <<wg, saved, pc, pushed, local_peers, remote_peers>>
    /\ UNCHANGED dbVars

PulledKeys ==
    {fetch_peer_configs(remote_peers)[i].public_key :
        i \in 1..Len(fetch_peer_configs(remote_peers))}

\* ------------------------------------------------------------ specifications

ServerChoices == Gateways \cup {"none"}
RegionChoices == {"europe", "none"}
\* expires_days in the body of a creation: not given (or 0), or one day
ExpiryDays == {0, 1}
\* one telemetry report: nothing to report, or a handshake now and traffic
Reports ==
    {[last_handshake |-> None, rx_bytes |-> 0, tx_bytes |-> 0],
     [last_handshake |-> now, rx_bytes |-> 1, tx_bytes |-> 1]}

\* the pushes that keep the totals of the peer within cap
TelemetryFits(cap, peer_id, rx_bytes, tx_bytes) ==
    \A p \in vpn_peers :
        p.id = peer_id =>
           /\ p.total_rx_bytes + rx_bytes <= cap
           /\ p.total_tx_bytes + tx_bytes <= cap

\* the registry under calls of every client
Next ==
    \/ \E g \in GatewayIds, s \in Secrets, h \in Gateways :
          register_gateway(g, s, h, PublicIpOf(h), AgentBody(h))
    \/ /\ nextReq <= MaxApiReq
       /\ \E g \in GatewayIds, s \in Secrets : create_peer_allocate(g, s, 0)
    \/ \E c \in creating, ok \in BOOLEAN : create_peer_insert(c, ok)
    \/ /\ nextReq <= MaxApiReq
       /\ \E k \in AdminKeys, sid \in ServerChoices, rg \in RegionChoices :
             create_vpn_config_allocate(k, sid, rg, 0)
    \/ \E c \in creating, ok \in BOOLEAN : create_vpn_config_insert(c, ok)
    \/ \E id \in Reqs, k \in AdminKeys : delete_config(id, k)
    \/ \E id \in Reqs, k \in AdminKeys : disable_config(id, k)
    \/ \E id \in Reqs, k \in AdminKeys : enable_config(id, k)

Spec == Init /\ [][Next]_vars

\* one gateway's agent, the provisioning of peers on that gateway and the
\* administration of those peers
NextSync ==
    \/ \E answered \in BOOLEAN : agent_register_gateway(answered)
    \/ /\ nextReq <= MaxSyncReq
       /\ create_vpn_config_allocate(ADMIN_API_KEY, AgentGateway, "none", 0)
    \/ \E c \in creating : create_vpn_config_insert(c, TRUE)
    \/ \E id \in Reqs : delete_config(id, ADMIN_API_KEY)
    \/ \E id \in Reqs : disable_config(id, ADMIN_API_KEY)
    \/ \E id \in Reqs : enable_config(id, ADMIN_API_KEY)
    \/ \E shown \in BOOLEAN, lost \in SUBSET wg : agent_sync_peer_status(shown, lost)
    \/ \E shown \in BOOLEAN, answered \in BOOLEAN : sync_configs_fetch(shown, answered)
    \/ \E failed \in SUBSET PulledKeys : sync_configs_apply(failed)

SpecSync == Init /\ [][NextSync]_vars

\* the agent's cycles while peers are provisioned and disabled, under the
\* assumption that the agent keeps running its loop, that pulls succeed
\* again and again, and that after a successful pull every `wg set`
\* succeeds again and again
NextHeal ==
    \/ \E answered \in BOOLEAN : agent_register_gateway(answered)
    \/ /\ nextReq <= MaxHealReq
       /\ create_vpn_config_allocate(ADMIN_API_KEY, AgentGateway, "none", 0)
    \/ \E c \in creating : create_vpn_config_insert(c, TRUE)
    \/ \E id \in Reqs : disable_config(id, ADMIN_API_KEY)
    \/ \E shown \in BOOLEAN, lost \in SUBSET wg : agent_sync_peer_status(shown, lost)
    \/ \E shown \in BOOLEAN, answered \in BOOLEAN : sync_configs_fetch(shown, answered)
    \/ \E failed \in SUBSET PulledKeys : sync_configs_apply(failed)

SpecHeal ==
    /\ Init
    /\ [][NextHeal]_vars
    /\ WF_vars(\E shown \in BOOLEAN, lost \in SUBSET wg :
                  agent_sync_peer_status(shown, lost))
    /\ WF_vars(\E failed \in SUBSET PulledKeys : sync_configs_apply(failed))
    /\ SF_vars(\E shown \in BOOLEAN : sync_configs_fetch(shown, TRUE))
    /\ SF_vars(remote_peers.status = 200 /\ sync_configs_apply({}))

\* the main loop of one gateway's agent while its peers are provisioned and
\* transfer data
NextAgent ==
    \/ \E answered \in BOOLEAN : agent_register_gateway(answered)
    \/ /\ nextReq <= MaxAgentReq
       /\ create_vpn_config_allocate(ADMIN_API_KEY, AgentGateway, "none", 0)
    \/ \E c \in creating : create_vpn_config_insert(c, TRUE)
    \/ \E k \in Keys : Traffic(k)
    \/ \E shown \in BOOLEAN, lost \in SUBSET wg : agent_sync_peer_status(shown, lost)
    \/ \E shown \in BOOLEAN, answered \in BOOLEAN : sync_configs_fetch(shown, answered)
    \/ \E failed \in SUBSET PulledKeys : sync_configs_apply(failed)

SpecAgent == Init /\ [][NextAgent]_vars

\* the gateway-facing calls, made by both gateways and by callers without a
\* valid credential, with any body
NextGateway ==
    \/ \E g \in GatewayIds, s \in Secrets, h \in Gateways, ip \in PublicIps :
          register_gateway(g, s, h, ip, AgentBody(h))
    \/ /\ nextReq <= MaxGatewayReq
       /\ \E g \in GatewayIds, s \in Secrets : create_peer_allocate(g, s, 0)
    \/ \E c \in creating : create_peer_insert(c, TRUE)
    \/ \E g \in GatewayIds, s \in Secrets, id \in Reqs, r \in Reports :
          /\ TelemetryFits(MaxBytes, id, r.rx_bytes, r.tx_bytes)
          /\ sync_peer_status(g, s, id, r.last_handshake, r.rx_bytes, r.tx_bytes)

SpecGateway == Init /\ [][NextGateway]_vars

\* telemetry pushes of the gateways for the peers of one of them, while
\* time passes
NextTelemetry ==
    \/ \E g \in Gateways : register_gateway(g, GATEWAY_TOKENS[g], g, PublicIpOf(g), AgentBody(g))
    \/ /\ nextReq <= MaxTelemetryReq
       /\ create_peer_allocate(AgentGateway, AgentToken, 0)
    \/ \E c \in creating : create_peer_insert(c, TRUE)
    \/ \E g \in Gateways, id \in Reqs, r \in Reports :
          /\ TelemetryFits(MaxTelemetryBytes, id, r.rx_bytes, r.tx_bytes)
          /\ sync_peer_status(g, GATEWAY_TOKENS[g], id, r.last_handshake,
                              r.rx_bytes, r.tx_bytes)
    \/ Tick

SpecTelemetry == Init /\ [][NextTelemetry]_vars

\* peers with and without an expiry on one gateway, while time passes
NextExpiry ==
    \/ register_gateway(AgentGateway, AgentToken, AgentGateway, PublicIpOf(AgentGateway), AgentBody(AgentGateway))
    \/ /\ nextReq <= MaxExpiryReq
       /\ \E d \in ExpiryDays : create_peer_allocate(AgentGateway, AgentToken, d)
    \/ \E c \in creating : create_peer_insert(c, TRUE)
    \/ /\ nextReq <= MaxExpiryReq
       /\ \E d \in ExpiryDays :
             create_vpn_config_allocate(ADMIN_API_KEY, AgentGateway, "none", d)
    \/ \E c \in creating : create_vpn_config_insert(c, TRUE)
    \/ \E id \in Reqs : disable_config(id, ADMIN_API_KEY)
    \/ \E id \in Reqs : enable_config(id, ADMIN_API_KEY)
    \/ Tick

SpecExpiry == Init /\ [][NextExpiry]_vars

\* creations and deletions on the gateways until a pool is used up
NextAlloc ==
    \/ \E g \in Gateways : register_gateway(g, GATEWAY_TOKENS[g], g, PublicIpOf(g), AgentBody(g))
    \/ \E g \in Gateways : create_peer_allocate(g, GATEWAY_TOKENS[g], 0)
    \/ \E c \in creating : create_peer_insert(c, TRUE)
    \/ \E g \in Gateways : create_vpn_config_allocate(ADMIN_API_KEY, g, "none", 0)
    \/ \E c \in creating : create_vpn_config_insert(c, TRUE)
    \/ \E id \in Reqs : delete_config(id, ADMIN_API_KEY)

SpecAlloc == Init /\ [][NextAlloc]_vars

\* the administration of peers: provisioning, disabling, enabling, deleting
NextAdmin ==
    \/ \E g \in Gateways : register_gateway(g, GATEWAY_TOKENS[g], g, PublicIpOf(g), AgentBody(g))
    \/ /\ nextReq <= MaxAdminReq
       /\ \E g \in Gateways : create_peer_allocate(g, GATEWAY_TOKENS[g], 0)
    \/ \E c \in creating : create_peer_insert(c, TRUE)
    \/ /\ nextReq <= MaxAdminReq
       /\ \E k \in AdminKeys, sid \in ServerChoices :
             create_vpn_config_allocate(k, sid, "none", 0)
    \/ \E c \in creating : create_vpn_config_insert(c, TRUE)
    \/ \E id \in Reqs, k \in AdminKeys : delete_config(id, k)
    \/ \E id \in Reqs, k \in AdminKeys : disable_config(id, k)
    \/ \E id \in Reqs, k \in AdminKeys : enable_config(id, k)

SpecAdmin == Init /\ [][NextAdmin]_vars

\* ------------------------------------------------------------ rendering

MaxRenderReq == 2

\* protocol parts of registration bodies that ServerRegistration accepts:
\* the two the agent sends, and three in which the nine parameters do not
\* go with the protocol or with each other
RegistrationBodies ==
    {AgentBody(g) : g \in Gateways}
        \cup {[protocol |-> "wireguard", awg |-> AgentAwg],
              [protocol |-> "amneziawg", awg |-> NoAwg],
              [protocol |-> "amneziawg", awg |-> [NoAwg EXCEPT !.awg_jc = 4]]}

\* gateways registering with any of these bodies, and the administrator
\* creating configurations on them
NextRender ==
    \/ \E g \in Gateways, body \in RegistrationBodies :
          register_gateway(g, GATEWAY_TOKENS[g], g, PublicIpOf(g), body)
    \/ /\ nextReq <= MaxRenderReq
       /\ \E sid \in Gateways :
             create_vpn_config_allocate(ADMIN_API_KEY, sid, "none", 0)
    \/ \E c \in creating : create_vpn_config_insert(c, TRUE)

SpecRender == Init /\ [][NextRender]_vars

\* ============================================================ claims

\* the response of gateway g's pull with its own credential
Pull(g) == get_gateway_peers(g, GATEWAY_TOKENS[g])
PullIds(g) ==
    IF Pull(g).status # 200 THEN {}
    ELSE {Pull(g).body.peers[i].id : i \in 1..Len(Pull(g).body.peers)}
\* the client token the creating call of peer id returned
TokenOf(id) == client_token(issued[id])
\* ids of the peers that were created and are deleted
DeletedIds == IssuedIds \ PeerIds

\* C1 (uniqueness): in every reachable state any two distinct peer rows of
\* the same gateway hold different addresses, also when creations interleave
C1_Uniqueness ==
    \A p \in vpn_peers, q \in vpn_peers :
        (p.id # q.id /\ p.server_id = q.server_id) => p.assigned_ip # q.assigned_ip

\* a creation whose INSERT raises leaves the tables as they were
FailedInsertChangesNothing ==
    \A c \in creating :
        (create_peer_insert(c, FALSE) \/ create_vpn_config_insert(c, FALSE))
            => UNCHANGED <<vpn_servers, ip_pools, vpn_peers>>
\* every address held on a gateway is owned by exactly one peer row, and
\* every peer row carries the hash of a token
NoOrphans ==
    /\ \A p \in vpn_peers :
         /\ Cardinality({q \in vpn_peers : q.server_id = p.server_id
                                           /\ q.assigned_ip = p.assigned_ip}) = 1
         /\ p.api_token_hash \in {sha256(t) : t \in Tokens}
    /\ \A h \in Hostnames : \A a \in HeldAddresses(h) :
         \E p \in vpn_peers : p.server_id = h /\ p.assigned_ip = a
\* C2 (atomic creation): a creation that fails leaves the registry as it
\* was, so that in every reachable state every allocated address is owned by
\* exactly one peer row and every peer row has a token hash
C2_AtomicCreation == [](NoOrphans) /\ [][FailedInsertChangesNothing]_vars

\* in the state right after a step that deletes peer rows, the address of
\* each deleted peer is held by no row of its gateway and allocate_ip can
\* hand it out (it is free, so the lowest free address is not above it)
ReleasedWithDeletion ==
    \A p \in vpn_peers :
        (p \notin vpn_peers' /\ vpn_peers' \subseteq vpn_peers) =>
            /\ p.assigned_ip \notin HeldAddresses(p.server_id)'
            /\ allocate_ip(p.server_id)' # Exhausted
            /\ allocate_ip(p.server_id)' <= p.assigned_ip
\* C3 (conservation): the step of delete_config that removes a peer frees
\* the peer's address, which a later creation on the gateway can be given
C3_Conservation == [][ReleasedWithDeletion]_vars

\* C4 (state-gating of retrieval): whatever the token, get_client_config
\* answers 200 only when the token's hash is that of an enabled peer, 401
\* when it is that of no peer, 403 when it is that of a disabled peer
C4_StateGating ==
    \A t \in Tokens :
        LET matching == {p \in vpn_peers : p.api_token_hash = sha256(t)}
            status == get_client_config(t).status
        IN /\ status = 200 => \E p \in matching : p.enabled
           /\ matching = {} => status = 401
           /\ (\E p \in matching : ~p.enabled) => status = 403
\* a disabled peer's token is answered 403, an enabled peer's 200, a deleted
\* peer's 401
C4_Witness ==
    /\ \E id \in PeerIds :
         ~Peer(id).enabled /\ get_client_config(TokenOf(id)).status = 403
    /\ \E id \in PeerIds :
         Peer(id).enabled /\ get_client_config(TokenOf(id)).status = 200
    /\ \E id \in DeletedIds : get_client_config(TokenOf(id)).status = 401

Pulled == fetch_peer_configs(remote_peers)
PulledEnabledKeys ==
    {Pulled[i].public_key : i \in {j \in 1..Len(Pulled) : Pulled[j].enabled}}
PulledDisabledKeys ==
    {Pulled[i].public_key : i \in {j \in 1..Len(Pulled) : ~Pulled[j].enabled}}
\* a step that ends a cycle whose pull was answered with 200
CycleEnds == pc = "fetched" /\ pc' = "idle" /\ remote_peers.status = 200
\* ... and in which `wg show` and every `wg set` succeeded
CleanCycleEnds == CycleEnds /\ local_peers = wg /\ sync_configs_apply({})
\* public keys of the peers that were registered and are deleted
DeletedKeys == {public_key(issued[id]) : id \in DeletedIds}
\* public keys of the disabled peers of the agent's gateway
DisabledKeys ==
    {p.public_key : p \in {q \in vpn_peers : q.server_id = AgentGateway /\ ~q.enabled}}

\* C6 (convergence): a cycle whose pull and wg commands all succeed leaves
\* on the interface exactly the public keys of the pulled peers that are
\* enabled, whatever was on the interface before
C6_Convergence == [][CleanCycleEnds => wg' = PulledEnabledKeys]_vars

\* a peer that is disabled and not on the interface is not put there, unless
\* by a cycle whose pull still saw it enabled
DisabledStaysAbsent ==
    \A k \in DisabledKeys \cap DisabledKeys' :
        (k \notin wg /\ (pc = "fetched" => k \notin PulledEnabledKeys)) => k \notin wg'
\* the step removes every pulled disabled peer that is on the interface and
\* adds every pulled enabled peer that is not
AppliesDifference ==
    /\ \A k \in PulledDisabledKeys \cap wg : k \notin wg'
    /\ \A k \in PulledEnabledKeys \ wg : k \in wg'
C8_DeletedLeavesDataPlane ==
    [][CleanCycleEnds => \A k \in (DeletedKeys \cap wg) \ PulledKeys : k \notin wg']_vars

\* the values a read response carries
PullValues(g) ==
    IF Pull(g).status # 200 THEN {}
    ELSE UNION {{Pull(g).body.peers[i].id, Pull(g).body.peers[i].public_key,
                 Pull(g).body.peers[i].assigned_ip} :
                i \in 1..Len(Pull(g).body.peers)}
ConfigByIdValues(id) ==
    LET r == get_config_by_id(id, ADMIN_API_KEY)
    IN IF r.status # 200 THEN {}
       ELSE {r.body.peer_id, r.body.public_key, r.body.assigned_ip}
ClientConfigValues(t) ==
    LET r == get_client_config(t)
    IN IF r.status # 200 THEN {} ELSE {r.body.peer_id, r.body.address}
Plaintexts == Tokens \cup PrivateKeys

\* C9 (credential secrecy): the peer rows hold the SHA-256 of the token the
\* creating call returned and hold neither a token nor a private key, no
\* read response (pull, get_config_by_id, get_client_config) carries either,
\* and the creating call's response carries them
C9_CredentialSecrecy ==
    /\ \A p \in vpn_peers :
         /\ p.api_token_hash = sha256(TokenOf(p.id))
         /\ {p.id, p.public_key, p.assigned_ip, p.api_token_hash} \cap Plaintexts = {}
         /\ DOMAIN p = {"id", "server_id", "public_key", "assigned_ip",
                        "enabled", "expires_at", "last_handshake",
                        "total_rx_bytes", "total_tx_bytes", "api_token_hash"}
    /\ \A g \in Gateways : PullValues(g) \cap Plaintexts = {}
    /\ \A id \in Reqs : ConfigByIdValues(id) \cap Plaintexts = {}
    /\ \A t \in Tokens : ClientConfigValues(t) \cap Plaintexts = {}
    /\ \A c \in creating :
         /\ c.handler = "create_peer" =>
              create_peer_response(c, TRUE).body.client_token = client_token(c.req)
         /\ c.handler = "create_vpn_config" =>
              /\ create_vpn_config_response(c, TRUE, TRUE).body.client_token
                    = client_token(c.req)
              /\ create_vpn_config_response(c, TRUE, TRUE).body.private_key
                    = private_key(c.req)
\* peers are stored and every read answers with data, while a creating call
\* is about to return its token and private key
C9_Witness ==
    /\ \E g \in Gateways : Pull(g).status = 200 /\ Len(Pull(g).body.peers) >= 2
    /\ \E id \in PeerIds : get_config_by_id(id, ADMIN_API_KEY).status = 200
    /\ \E t \in Tokens : get_client_config(t).status = 200
    /\ \E c \in creating : c.handler = "create_vpn_config"

\* a deleted peer's token is answered 401 and no read returns the peer
Gone ==
    \A id \in DeletedIds :
        /\ get_client_config(TokenOf(id)).status = 401
        /\ get_config_by_id(id, ADMIN_API_KEY).status = 404
        /\ \A g \in Gateways : id \notin PullIds(g)
\* delete_config deletes the peer, enabled or not, and no step brings a
\* deleted peer back
DeletesAndStaysDeleted ==
    /\ \A id \in PeerIds : delete_config(id, ADMIN_API_KEY) => id \in DeletedIds'
    /\ \A id \in DeletedIds : id \in DeletedIds'
\* C10 (delete is terminal): delete_config removes the peer whether it is
\* enabled or disabled; once deleted, its token is answered 401, no pull and
\* no admin read returns it, and no later step brings its id back
C10_DeleteTerminal == [](Gone) /\ [][DeletesAndStaysDeleted]_vars
\* a peer has been deleted, and of the live peers one is enabled and one is
\* disabled: delete_config applies to either
C10_Witness ==
    /\ DeletedIds # {}
    /\ \E id \in PeerIds : Peer(id).enabled
    /\ \E id \in PeerIds : ~Peer(id).enabled

\* peers whose expires_at has passed
ExpiredPeers == {p \in vpn_peers : p.expires_at # None /\ p.expires_at < now}
\* C11 (expiry): a peer whose expires_at has passed, enabled or disabled
\* before, is answered 403 on get_client_config and is in no pull of its
\* gateway
C11_Expiry ==
    \A p \in ExpiredPeers :
        /\ get_client_config(TokenOf(p.id)).status = 403
        /\ p.id \notin PullIds(p.server_id)

\* the credential pairs that are not a configured identity with its secret
BadCredentials ==
    {c \in GatewayIds \X Secrets :
        c[1] \notin Gateways \/ GATEWAY_TOKENS[c[1]] # c[2]}
\* each gateway-facing call with such a pair is answered 401
Rejected ==
    \A c \in BadCredentials :
        /\ \A h \in Gateways, ip \in PublicIps :
             register_gateway_response(c[1], c[2], h, ip, AgentBody(h)).status = 401
        /\ get_gateway_peers(c[1], c[2]).status = 401
        /\ create_peer_allocate_response(c[1], c[2], 0).status = 401
        /\ \A id \in Reqs : sync_peer_status_response(c[1], c[2], id).status = 401
\* each gateway-facing call that writes leaves the registry as it was when
\* it is made with such a pair: a step that changes the registry is no such
\* call
RejectedChangesNothing ==
    \/ UNCHANGED dbVars
    \/ \A c \in BadCredentials :
         /\ \A h \in Gateways, ip \in PublicIps :
              ~register_gateway(c[1], c[2], h, ip, AgentBody(h))
         /\ ~create_peer_allocate(c[1], c[2], 0)
         /\ \A id \in Reqs, r \in Reports :
              ~sync_peer_status(c[1], c[2], id, r.last_handshake, r.rx_bytes, r.tx_bytes)
\* C12 (no session): register, pull, create_peer and sync_peer_status, called
\* with an unknown gateway id or with a secret that is not that id's, are
\* answered 401 and change nothing, whatever calls were made before
C12_IndependentAuth == [](Rejected) /\ [][RejectedChangesNothing]_vars
\* both gateways have registered, created a peer and pushed telemetry for
\* it with their credentials
C12_Witness ==
    \A g \in Gateways :
        /\ g \in Hostnames
        /\ \E p \in vpn_peers : p.server_id = g /\ p.total_rx_bytes > 0

\* the rows of vpn_servers and of ip_pools that are not those of gateway g
RowsOfOthers(g) ==
    <<{r \in vpn_servers : r.hostname # g}, {r \in ip_pools : r.server_id # g}>>
\* C13 (registration writes the caller's own row only): a register call
\* with the credential of gateway g leaves every gateway row and pool that
\* is not g's as it was, and is answered 409 when its body names a hostname
\* that is registered and is not g
C13_RegisterOwnRowOnly ==
    [][\A g \in Gateways, h \in Gateways, ip \in PublicIps :
          register_gateway(g, GATEWAY_TOKENS[g], h, ip, AgentBody(h)) =>
             /\ RowsOfOthers(g)' = RowsOfOthers(g)
             /\ (h # g /\ h \in Hostnames) =>
                   register_gateway_response(g, GATEWAY_TOKENS[g], h, ip, AgentBody(h)).status = 409]_vars

\* the peer rows that are not on gateway g
PeersOfOthers(g) == {p \in vpn_peers : p.server_id # g}
\* C14 (telemetry writes the caller's own peers only): a sync_peer_status
\* call with the credential of gateway g leaves every peer row that is not
\* on g as it was
C14_TelemetryOwnPeersOnly ==
    [][\A g \in Gateways, id \in Reqs, r \in Reports :
          sync_peer_status(g, GATEWAY_TOKENS[g], id,
                           r.last_handshake, r.rx_bytes, r.tx_bytes)
             => PeersOfOthers(g)' = PeersOfOthers(g)]_vars

\* the row of vpn_servers with this hostname
Server(h) == CHOOSE r \in vpn_servers : r.hostname = h
\* every registered hostname has one row and one pool, the pool that
\* register_gateway creates
OneRowOnePool ==
    \A h \in Hostnames :
        /\ Cardinality({r \in vpn_servers : r.hostname = h}) = 1
        /\ {q \in ip_pools : q.server_id = Server(h).id}
              = {[server_id |-> Server(h).id, network |-> PoolNetwork,
                  gateway |-> PoolGateway]}
\* a registration of a registered gateway with the data it is registered
\* with leaves the pools, the peers and their addresses as they were, and
\* the gateway's row too but for updated_at
RegisteringAgainKeeps ==
    \A g \in Gateways \cap Hostnames :
        register_gateway(g, GATEWAY_TOKENS[g], g, Server(g).public_ip, AgentBody(g)) =>
            /\ ip_pools' = ip_pools
            /\ vpn_peers' = vpn_peers
            /\ HeldAddresses(g)' = HeldAddresses(g)
            /\ Cardinality(vpn_servers') = Cardinality(vpn_servers)
            /\ [Server(g)' EXCEPT !.updated_at = 0] = [Server(g) EXCEPT !.updated_at = 0]
\* C15 (idempotent registration): registering again with identical data
\* gives one gateway row and one pool, and changes neither the pool nor the
\* peers and addresses of the gateway
C15_IdempotentRegistration == [](OneRowOnePool) /\ [][RegisteringAgainKeeps]_vars
\* the agent's gateway has a peer that was created before the gateway's
\* latest registration: the gateway registered, the peer was created on the
\* day before its expires_at, and the gateway registered again later
C15_Witness ==
    /\ AgentGateway \in Hostnames
    /\ \E p \in vpn_peers :
         /\ p.server_id = AgentGateway
         /\ p.expires_at # None
         /\ p.expires_at - 1 < Server(AgentGateway).updated_at

\* the addresses of the block 10.66.66.0/24 (scaled down) that are neither
\* the network address, nor the broadcast address, nor the reserved .1
Assignable == (0..PoolLast) \ {0, 1, PoolLast}
\* the addresses of gateway g that no live peer holds
FreeOn(g) ==
    Assignable \ {p.assigned_ip : p \in {q \in vpn_peers : q.server_id = g}}
\* a step in which a creation draws its address gives it the lowest free
\* address of its gateway
DrawsLowestFree ==
    \A c \in creating' \ creating :
        /\ c.assigned_ip \in FreeOn(c.server_id)
        /\ \A a \in FreeOn(c.server_id) : c.assigned_ip <= a
\* C16 (lowest-free allocation): every allocation returns the lowest
\* address of the gateway's pool that no live peer holds, and no peer ever
\* holds the network, the broadcast or the reserved gateway address
C16_LowestFree ==
    /\ [](\A p \in vpn_peers : p.assigned_ip \in Assignable)
    /\ [][DrawsLowestFree]_vars
\* the scenario: peers 1, 2, 3 got .2, .3, .4, the peer at .3 was deleted
\* and peer 4 got .3
C16_Witness ==
    /\ PeerIds = {1, 3, 4}
    /\ Peer(1).assigned_ip = 2
    /\ Peer(3).assigned_ip = 4
    /\ Peer(4).assigned_ip = 3
    /\ \A id \in PeerIds : Peer(id).server_id = AgentGateway

\* the registered gateways on which no address is free
ExhaustedGateways == {g \in Gateways \cap Hostnames : FreeOn(g) = {}}
\* on such a gateway both creation handlers answer with an error that is
\* not the 404 of a gateway that is not registered
ExhaustedIsAnError ==
    /\ \A g \in ExhaustedGateways :
         /\ create_peer_allocate_response(g, GATEWAY_TOKENS[g], 0).status = 500
         /\ create_vpn_config_allocate_response(ADMIN_API_KEY, g, "none", 0,
                                                 Server(g)).status = 500
    /\ \A g \in Gateways \ Hostnames :
         /\ create_peer_allocate_response(g, GATEWAY_TOKENS[g], 0).status = 404
         /\ create_vpn_config_allocate_response(ADMIN_API_KEY, g, "none", 0,
                                                 [id |-> g]).status = 404
\* ... and a creation on such a gateway makes no peer row, draws no token
\* and reserves nothing
ExhaustedCreatesNothing ==
    \A g \in ExhaustedGateways :
        (\/ create_peer_allocate(g, GATEWAY_TOKENS[g], 0)
         \/ create_vpn_config_allocate(ADMIN_API_KEY, g, "none", 0))
            => UNCHANGED <<vpn_peers, issued, nextReq, creating>>
PoolsHolding(p) ==
    {q \in ip_pools : /\ q.server_id = p.server_id
                      /\ q.network <= p.assigned_ip
                      /\ p.assigned_ip <= q.network + PoolLast}
\* C18 (pool membership): every peer row is on exactly one registered
\* gateway and its address lies in exactly one pool of that gateway
C18_PoolMembership ==
    \A p \in vpn_peers :
        /\ Cardinality({r \in vpn_servers : r.id = p.server_id}) = 1
        /\ Cardinality({q \in vpn_peers : q.id = p.id}) = 1
        /\ Cardinality(PoolsHolding(p)) = 1
\* both gateways have peers, one of them as many as its pool has addresses
C18_Witness ==
    /\ \A g \in Gateways : \E p \in vpn_peers : p.server_id = g
    /\ \E g \in Gateways :
         Cardinality({p \in vpn_peers : p.server_id = g}) = Cardinality(Assignable)

\* a step that leaves every peer row as it was, but for the enabled flag of
\* the row of peer id
OnlyTogglesPeer(id) ==
    /\ PeerIds' = PeerIds
    /\ Cardinality(vpn_peers') = Cardinality(vpn_peers)
    /\ \A p \in vpn_peers :
         IF p.id = id
         THEN [p EXCEPT !.enabled = TRUE] \in
                 {[q EXCEPT !.enabled = TRUE] : q \in vpn_peers'}
         ELSE p \in vpn_peers'
    /\ \A g \in Gateways : HeldAddresses(g)' = HeldAddresses(g)
    /\ UNCHANGED <<vpn_servers, ip_pools, issued>>
\* disable_config and enable_config set the flag of their peer and nothing
\* else; after enable_config the peer's token retrieves the config
TogglesOnly ==
    \A id \in Reqs :
        /\ \A k \in AdminKeys :
             (disable_config(id, k) \/ enable_config(id, k)) => OnlyTogglesPeer(id)
        /\ id \in PeerIds =>
             /\ disable_config(id, ADMIN_API_KEY) =>
                   /\ ~Peer(id)'.enabled
                   /\ get_client_config(TokenOf(id))'.status = 403
             /\ enable_config(id, ADMIN_API_KEY) =>
                   /\ Peer(id)'.enabled
                   /\ get_client_config(TokenOf(id))'.status = 200
                   /\ get_client_config(TokenOf(id))'.body.address = Peer(id).assigned_ip
\* C19 (disable and enable only toggle): disable_config and enable_config
\* change the enabled flag of their peer only; its address stays allocated
\* to it, its token hash and its public key stay, every other peer stays,
\* and after disable then enable the original token retrieves the config
C19_ToggleOnly == [][TogglesOnly]_vars
\* a disabled peer, whose token is refused, shares its gateway with an
\* enabled peer that holds another address
C19_Witness ==
    \E id \in PeerIds, other \in PeerIds :
        /\ ~Peer(id).enabled
        /\ Peer(other).enabled
        /\ Peer(other).server_id = Peer(id).server_id
        /\ Peer(other).assigned_ip # Peer(id).assigned_ip
        /\ get_client_config(TokenOf(id)).status = 403

\* C20 (authentication failures are indistinguishable): every
\* gateway-facing call answers an unknown gateway id exactly as it answers
\* a configured id with a wrong secret, in status and in detail
C20_AuthFailuresAlike ==
    \A s \in Secrets, c \in {b \in BadCredentials : b[1] \in Gateways} :
        /\ get_gateway_peers(UnknownGateway, s) = get_gateway_peers(c[1], c[2])
        /\ create_peer_allocate_response(UnknownGateway, s, 0)
              = create_peer_allocate_response(c[1], c[2], 0)
        /\ \A h \in Gateways, ip \in PublicIps :
             register_gateway_response(UnknownGateway, s, h, ip, AgentBody(h))
                = register_gateway_response(c[1], c[2], h, ip, AgentBody(h))
        /\ \A id \in Reqs :
             sync_peer_status_response(UnknownGateway, s, id)
                = sync_peer_status_response(c[1], c[2], id)

\* a push made with a gateway's own credential adds its counts to the totals
\* of the peer it names, and keeps the stored handshake when it carries none
PushAdds ==
    \A g \in Gateways, id \in PeerIds, r \in Reports :
        \/ ~sync_peer_status(g, GATEWAY_TOKENS[g], id,
                             r.last_handshake, r.rx_bytes, r.tx_bytes)
        \/ /\ Peer(id)'.total_rx_bytes = Peer(id).total_rx_bytes + r.rx_bytes
           /\ Peer(id)'.total_tx_bytes = Peer(id).total_tx_bytes + r.tx_bytes
           /\ r.last_handshake = None =>
                 Peer(id)'.last_handshake = Peer(id).last_handshake
\* no step lowers the totals of a peer
TotalsNeverDecrease ==
    \A p \in vpn_peers, q \in vpn_peers' :
        p.id = q.id =>
            /\ q.total_rx_bytes >= p.total_rx_bytes
            /\ q.total_tx_bytes >= p.total_tx_bytes
\* C21 (additive telemetry): every accepted push adds its rx/tx counts to the
\* stored totals of the peer, so the totals never decrease, and a push
\* without a handshake time keeps the stored last_handshake
C21_Additive == [][PushAdds /\ TotalsNeverDecrease]_vars
\* a peer whose totals are the sum of two pushes and whose handshake is that
\* of an earlier push
C21_Witness ==
    \E p \in vpn_peers :
        /\ p.total_rx_bytes = 2
        /\ p.total_tx_bytes = 2
        /\ p.last_handshake # None
        /\ p.last_handshake < now

\* C22 (last-known-good): the interface changes only in the apply step of a
\* cycle whose pull was answered 200; a cycle whose pull failed adds no peer
\* and removes none
C22_LastKnownGood ==
    [][wg' # wg => (pc = "fetched" /\ remote_peers.status = 200)]_vars
\* a cycle whose pull has failed, on a gateway that serves a peer and whose
\* registry lists that peer as disabled and another as enabled and absent
C22_Witness ==
    /\ pc = "fetched"
    /\ remote_peers.status # 200
    /\ \E p \in vpn_peers :
          p.server_id = AgentGateway /\ ~p.enabled /\ p.public_key \in wg
    /\ \E p \in vpn_peers :
          p.server_id = AgentGateway /\ p.enabled /\ p.public_key \notin wg

\* a create_vpn_config whose INSERT has been made answers 200 with the
\* configuration text and a null image when the encoding fails, and differs
\* from the answer with an image in the image only
NullImage ==
    \A c \in creating :
        c.handler = "create_vpn_config" =>
            LET failed == create_vpn_config_response(c, TRUE, FALSE)
                done == create_vpn_config_response(c, TRUE, TRUE)
            IN /\ failed.status = 200
               /\ done.status = 200
               /\ failed.body.qr_code = None
               /\ done.body.qr_code # None
               /\ failed.body.config = build_wireguard_config(c)
               /\ [failed.body EXCEPT !.qr_code = done.body.qr_code] = done.body
\* the INSERT of create_vpn_config stores the peer with the allocated
\* address and the digest of the token the response carries
StoresPeer ==
    \A c \in creating :
        \/ ~create_vpn_config_insert(c, TRUE)
        \/ \E p \in vpn_peers' \ vpn_peers :
              /\ p.id = create_vpn_config_response(c, TRUE, FALSE).body.peer_id
              /\ p.assigned_ip = create_vpn_config_response(c, TRUE, FALSE).body.assigned_ip
              /\ p.api_token_hash
                    = sha256(create_vpn_config_response(c, TRUE, FALSE).body.client_token)
\* C24 (QR failure degrades gracefully): when the encoding of the
\* configuration as an image fails, create_vpn_config still answers 200 with
\* the configuration text and a null image, and the peer, its address and
\* its token are stored as when the encoding succeeds
C24_QrDegrades == [](NullImage) /\ [][StoresPeer]_vars
\* a create_vpn_config arrived at its INSERT, and a peer that one stored
C24_Witness ==
    /\ \E c \in creating :
          /\ c.handler = "create_vpn_config"
          /\ create_vpn_config_response(c, TRUE, FALSE).body.qr_code = None
    /\ \E id \in PeerIds : get_client_config(TokenOf(id)).status = 200

\* the rows that a step adds, removes or changes are of other gateways than g
OthersOnly(g) ==
    \A p \in (vpn_peers \ vpn_peers') \cup (vpn_peers' \ vpn_peers) :
        p.server_id # g
\* the pull of a gateway lists peers of that gateway only
PullsOwnPeers ==
    \A g \in Gateways : \A id \in PullIds(g) : Peer(id).server_id = g
\* a step that touches only peers of other gateways leaves the pull of g as
\* it was
PullUnchangedByOthers ==
    \A g \in Gateways :
        (OthersOnly(g) /\ vpn_servers' = vpn_servers) => Pull(g)' = Pull(g)
\* create_peer creates the peer on the gateway whose credential it carries
CreatedForCaller ==
    /\ \A g \in Gateways :
          \/ ~create_peer_allocate(g, GATEWAY_TOKENS[g], 0)
          \/ \A c \in creating' \ creating : c.server_id = g
    /\ \A c \in creating :
          \/ ~create_peer_insert(c, TRUE)
          \/ \A p \in vpn_peers' \ vpn_peers : p.server_id = c.server_id
\* C25 (pull isolation): the pull of gateway A returns peers of A only, a
\* creation, disabling, enabling or deletion of a peer of gateway B leaves
\* the pull of A unchanged, and create_peer assigns the new peer to the
\* gateway that authenticated
C25_PullIsolation ==
    [](PullsOwnPeers) /\ [][PullUnchangedByOthers /\ CreatedForCaller]_vars
\* gateway gw1 pulls a peer of its own that create_peer made, while gw2 holds
\* a disabled peer
C25_Witness ==
    /\ \E id \in PullIds("gw1") : Peer(id).server_id = "gw1"
    /\ \E p \in vpn_peers : p.server_id = "gw2" /\ ~p.enabled
    /\ Pull("gw2").status = 200

\* keys that are not the admin key: a wrong key, the gateway ids and the
\* gateway secrets
OtherKeys == {"wrongkey", ""} \cup GatewayIds \cup Secrets
\* each provisioning call made with such a key is answered 401
AdminOnly ==
    \A k \in OtherKeys :
        /\ \A sid \in ServerChoices, s \in vpn_servers :
              create_vpn_config_allocate_response(k, sid, "none", 0, s).status = 401
        /\ \A id \in Reqs :
              /\ get_config_by_id(id, k).status = 401
              /\ delete_config_response(id, k).status = 401
              /\ disable_config_response(id, k).status = 401
              /\ enable_config_response(id, k).status = 401
        /\ list_all_servers(k).status = 401
        /\ get_global_stats(k).status = 401
\* a step that changes the registry is no provisioning call with such a key
AdminOnlyChangesNothing ==
    \/ UNCHANGED dbVars
    \/ \A k \in OtherKeys :
          /\ \A sid \in ServerChoices : ~create_vpn_config_allocate(k, sid, "none", 0)
          /\ \A id \in Reqs :
                /\ ~delete_config(id, k)
                /\ ~disable_config(id, k)
                /\ ~enable_config(id, k)
\* C26 (admin credential): create_vpn_config, get_config_by_id,
\* delete_config, disable_config, enable_config, list_all_servers and
\* get_global_stats answer 401 to every key that is not the admin key, a
\* gateway id or gateway secret included, and such a call changes nothing
C26_AdminOnly == [](AdminOnly) /\ [][AdminOnlyChangesNothing]_vars
\* both gateways are registered and hold peers, one of them disabled: every
\* provisioning call has something to read or to change, and the admin key
\* is answered 200
C26_Witness ==
    /\ Hostnames = Gateways
    /\ \E p \in vpn_peers : p.enabled
    /\ \E p \in vpn_peers : ~p.enabled
    /\ list_all_servers(ADMIN_API_KEY).status = 200
    /\ get_global_stats(ADMIN_API_KEY).body.total_peers = 2
    /\ \A id \in PeerIds : get_config_by_id(id, ADMIN_API_KEY).status = 200

\* C23 (no crash on error): the agent never terminates because a call to
\* the registry failed or timed out
C23_NeverExits == [](pc # "exited")

\* C27 (cycle ordering): every cycle of the agent starts with a registration
\* call, followed by the telemetry push, the pull and the apply step
C27_CycleOrder ==
    [][/\ (pc = "idle" /\ pc' # pc) =>
             \E answered \in BOOLEAN : agent_register_gateway(answered)
       /\ (pc = "reported" /\ pc' # pc) => pc' = "fetched"
       /\ (pc = "fetched" /\ pc' # pc) => pc' = "idle"]_vars

\* the reports of the telemetry step that ends now and that were delivered
Delivered == {r \in pushed' : pc = "idle" /\ pc' = "reported" /\ r.delivered}
\* C28 (telemetry reaches the right record): after the agent's delivered
\* report for a peer on its interface, the registry record of the peer with
\* that public key carries the reported handshake time and byte counts
C28_RightRecord ==
    [][\A r \in Delivered, p \in vpn_peers' :
          p.public_key = r.peer_id =>
             /\ p.last_handshake = r.last_handshake
             /\ p.total_rx_bytes >= r.rx_bytes
             /\ p.total_tx_bytes >= r.tx_bytes]_vars

\* C29 (incremental counters): the counts of two successive delivered
\* reports for a peer of the registry are bytes transferred in disjoint
\* periods, so that together they do not exceed the cumulative counters of
\* the interface and no byte is counted twice
C29_Incremental ==
    [][\A r \in Delivered, before \in pushed :
          (/\ before.peer_id = r.peer_id
           /\ before.delivered
           /\ \E p \in vpn_peers : p.public_key = r.peer_id) =>
             /\ before.rx_bytes + r.rx_bytes <= wg_stats[r.peer_id].rx_bytes
             /\ before.tx_bytes + r.tx_bytes <= wg_stats[r.peer_id].tx_bytes]_vars

\* a step of the agent's telemetry push
TelemetryStep == pc = "idle" /\ (pc' # pc \/ pushed' # pushed)
\* the telemetry step makes a report for every peer of the dump that has a
\* handshake, whichever of them fail, and is followed by the pull and the
\* apply step
ReportsAll ==
    /\ TelemetryStep =>
          /\ pc' = "reported"
          /\ \E shown \in BOOLEAN : {r.peer_id : r \in pushed'} = ReportedKeys(shown)
    /\ (pc = "reported" /\ pc' # pc) =>
          \E shown \in BOOLEAN, answered \in BOOLEAN : sync_configs_fetch(shown, answered)
    /\ (pc = "fetched" /\ pc' # pc) =>
          \E failed \in SUBSET PulledKeys : sync_configs_apply(failed)
\* C30 (fire-and-forget telemetry): when the report for one peer fails, the
\* reports for the other peers with a handshake are still made in the same
\* cycle, and the pull and the apply step of the cycle still run
C30_FireAndForget == [][ReportsAll]_vars
\* a cycle in which the report for one peer failed and the report for a
\* later peer was delivered, arrived at its apply step with a pull answered
C30_Witness ==
    /\ pc = "fetched"
    /\ remote_peers.status = 200
    /\ \E r1 \in pushed, r2 \in pushed :
          r1.peer_id < r2.peer_id /\ ~r1.delivered /\ r2.delivered

\* a peer row without its telemetry fields
Lifecycle(p) ==
    [p EXCEPT !.last_handshake = None, !.total_rx_bytes = 0, !.total_tx_bytes = 0]
\* the steps of the gateway-facing calls that change a row of a peer and
\* neither add nor remove one are the telemetry pushes: such a step changes
\* one row, of that row the telemetry fields only, and nothing in the other
\* tables
PushTouchesTelemetryOnly ==
    (PeerIds' = PeerIds /\ vpn_peers' # vpn_peers) =>
        /\ {Lifecycle(p) : p \in vpn_peers'} = {Lifecycle(p) : p \in vpn_peers}
        /\ Cardinality(vpn_peers' \ vpn_peers) = 1
        /\ UNCHANGED <<vpn_servers, ip_pools, issued, nextReq, creating>>
\* C35 (telemetry fields only): a telemetry push changes at most the
\* last_handshake and the rx/tx totals of the peer it names; the enabled
\* flag, address, token digest, public key and expiry of that peer, and all
\* other peers, stay as they were
C35_TelemetryOnly == [][PushTouchesTelemetryOnly]_vars
\* two peers, of which one has telemetry pushed and the other has none
C35_Witness ==
    \E p \in vpn_peers, q \in vpn_peers :
        /\ p.id # q.id
        /\ p.last_handshake # None
        /\ p.total_rx_bytes > 0
        /\ q.last_handshake = None
        /\ q.total_rx_bytes = 0

\* ids of peers that do not exist: never issued, or deleted
UnknownIds == Reqs \ PeerIds
\* C36 (unknown entities): delete_config, disable_config, enable_config and
\* get_config_by_id answer 404 for a peer id that does not exist, and the
\* pull and create_peer of an authenticated gateway that never registered
\* answer 404
C36_UnknownIsNotFound ==
    /\ \A id \in UnknownIds :
          /\ delete_config_response(id, ADMIN_API_KEY).status = 404
          /\ get_config_by_id(id, ADMIN_API_KEY).status = 404
          /\ disable_config_response(id, ADMIN_API_KEY).status = 404
          /\ enable_config_response(id, ADMIN_API_KEY).status = 404
    /\ \A g \in Gateways \ Hostnames :
          /\ get_gateway_peers(g, GATEWAY_TOKENS[g]).status = 404
          /\ create_peer_allocate_response(g, GATEWAY_TOKENS[g], 0).status = 404

\* C31 (durable persistence): at the end of every cycle that changed the
\* interface, by adding a peer or by removing one, the saved configuration
\* of the interface equals the live interface
C31_Persisted ==
    [][(pc = "fetched" /\ pc' = "idle" /\ wg' # wg) => saved' = wg']_vars

\* a pulled peer as it would be with a pre-shared key
WithPresharedKey(peer) == [preshared_key |-> PresharedKey] @@ peer
\* the peers of the last pull, and the same peers with a pre-shared key
PulledPeers == {Pulled[i] : i \in 1..Len(Pulled)}
AppliedPeers == PulledPeers \cup {WithPresharedKey(peer) : peer \in PulledPeers}
\* C32 (temp file cleanup): whenever apply_peer_config has written a
\* pre-shared key to a temporary file, the file is gone when it returns,
\* whether `wg set` exits with 0, exits non-zero or raises
C32_TempFileRemoved ==
    \A peer \in AppliedPeers, outcome \in WgSetOutcomes :
        preshared_key(peer) # None =>
            ~apply_peer_config(peer, outcome).psk_file_left

\* C34 (present in both is a no-op): for a key that is on the interface and
\* in the pull as enabled, the cycle issues no `wg set` command
C34_PresentInBothNoOp ==
    pc = "fetched" =>
        \A k \in wg \cap PulledEnabledKeys :
            \A c \in sync_configs_commands(Pulled, local_peers) : c.public_key # k

\* C38 (faithful outcome): apply_peer_config returns True and saves the
\* interface exactly when `wg set` exited with 0, and returns False exactly
\* when the peer was not added, with and without a pre-shared key
C38_FaithfulOutcome ==
    \A peer \in AppliedPeers, outcome \in WgSetOutcomes :
        /\ apply_peer_config(peer, outcome).returned = (outcome = "zero")
        /\ apply_peer_config(peer, outcome).saved = (outcome = "zero")
        /\ apply_peer_config(peer, outcome).returned
              = apply_peer_config(peer, outcome).added

\* the agent has registered and runs its loop
Running == pc \in {"idle", "reported", "fetched"}
\* key k is of an enabled peer of the agent's gateway
EnabledKey(k) ==
    \E p \in vpn_peers : p.public_key = k /\ p.server_id = AgentGateway /\ p.enabled
\* C33 (partial application heals): while the agent runs, a peer that is
\* enabled in the registry is eventually on the interface, unless it stops
\* being enabled: an add that fails in one cycle is made again in a later
\* one, pulls and adds succeeding eventually
C33_Heals ==
    \A k \in {public_key(r) : r \in 1..MaxHealReq} :
        (Running /\ EnabledKey(k)) ~> (k \in wg \/ ~EnabledKey(k))
\* a cycle at its apply step in which an enabled pulled peer is not on the
\* interface although a peer that was created after it is: its add has
\* failed in an earlier cycle and is due again
C33_Witness ==
    /\ pc = "fetched"
    /\ \E p \in vpn_peers, q \in vpn_peers :
          /\ p.id < q.id
          /\ p.enabled
          /\ p.public_key \in PulledEnabledKeys
          /\ p.public_key \notin wg
          /\ p.public_key \notin local_peers
          /\ q.public_key \in wg
\* the values of the obfuscation lines of a rendered configuration
ObfuscationValues(config) ==
    {config.Obfuscation[i][2] : i \in 1..Len(config.Obfuscation)}
\* the creations of create_vpn_config whose response is being built
Rendering == {c \in creating : c.handler = "create_vpn_config"}
\* C37 (obfuscation block): a rendered configuration has the obfuscation
\* lines only when the protocol of its gateway is amneziawg, and then all
\* nine of them with a value: never a line whose value is None
C37_ObfuscationBlock ==
    \A c \in Rendering :
        build_wireguard_config(c).Obfuscation # <<>> =>
            /\ c.protocol = "amneziawg"
            /\ Len(build_wireguard_config(c).Obfuscation) = 9
            /\ "None" \notin ObfuscationValues(build_wireguard_config(c))
\* the part of C37 that fails when the nine are registered apart: no
\* rendered line has the value None
C37_NoPartialBlock ==
    \A c \in Rendering :
        "None" \notin ObfuscationValues(build_wireguard_config(c))
\* the part of C37 that fails when parameters are registered under another
\* protocol: obfuscation lines only for a gateway that is amneziawg now
C37_OnlyForAmneziaWG ==
    \A c \in Rendering :
        build_wireguard_config(c).Obfuscation # <<>> =>
            c.protocol = "amneziawg"
====
